---- MODULE Spec2Model ----
(***************************************************************************)
(* forkengine: the Runtime of src/lib.rs, an interpreter for an eight-    *)
(* instruction tape language that records one RuntimeSnapshot per         *)
(* executed instruction.                                                   *)
(*                                                                         *)
(* The state is the Runtime struct (lib.rs 51-65), the locals of           *)
(* Runtime::run (snapshots, memory_pointer_max), the position of run       *)
(* (status) and the RuntimeProduct it returns.  One action models one      *)
(* iteration of the while loop of run (lib.rs 227-265) for one kind of     *)
(* character, the handler it calls included.                               *)
(*                                                                         *)
(* A program is a sequence of characters.  String::len() counts UTF-8      *)
(* bytes while chars().nth(i) counts characters, so each character keeps   *)
(* its encoded width (Utf8Len).  The stopwatch (time::precise_time_ns)     *)
(* is not modelled.  Vec::capacity() equals Vec::len() throughout: the     *)
(* vector is built by vec![0; 1] and only ever grown by reserve_exact(n)   *)
(* followed by extend of n elements.                                       *)
(***************************************************************************)
EXTENDS Integers, Sequences, FiniteSets, TLC

VARIABLES
    instructions,          \* Runtime.instructions: sequence of characters
    instruction_pointer,   \* Runtime.instruction_pointer
    input,                 \* Runtime.input
    input_pointer,         \* Runtime.input_pointer
    memory,                \* Runtime.memory
    memory_pointer,        \* Runtime.memory_pointer
    output,                \* Runtime.output
    execution_limit,       \* Runtime.execution_limit
    memory_limit,          \* Runtime.memory_limit
    snapshots,             \* run: let mut snapshots
    memory_pointer_max,    \* run: let mut memory_pointer_max
    status,                \* where run is: running, halted_*, panicked
    product,               \* the RuntimeProduct returned by run
    step_cap               \* bound of the model on the length of the trace

vars == <<instructions, instruction_pointer, input, input_pointer, memory,
          memory_pointer, output, execution_limit, memory_limit, snapshots,
          memory_pointer_max, status, product, step_cap>>

runtime == <<instruction_pointer, input_pointer, memory, memory_pointer, output>>

config == <<instructions, input, execution_limit, memory_limit, step_cap>>

-----------------------------------------------------------------------------
(* Bounds of the model *)

MaxProg == 3          \* longest program of the enumerated runs (characters)
MaxExecLimit == 2     \* largest execution_limit of the enumerated runs
MaxMemLimit == 2      \* largest memory_limit of the enumerated runs
MaxSteps == 12        \* snapshots recorded at most in an enumerated or example run
MaxSeekLen == 5
MaxCountdown == 100   \* countdown runs start from every n up to this, and from 255
MaxCountdownSteps == 800  \* snapshots recorded at most in a countdown run

(* Program constants *)

ByteMax == 255        \* u8::MAX, the largest cell value
InputSentinel == 255  \* next_input_byte: the byte returned at exhaustion

-----------------------------------------------------------------------------
(* Characters *)

Instr == {">", "<", "+", "-", ".", ",", "[", "]"}

AsciiComment == "x"       \* a one-byte character that is no instruction
WideComment == "U+00E9"   \* a two-byte character that is no instruction

Chars == Instr \cup {AsciiComment, WideComment}

Utf8Len(c) == IF c = WideComment THEN 2 ELSE 1

(* String::len(): the number of bytes of the UTF-8 encoding, one per       *)
(* character and one more per two-byte character.                          *)
StrLen(s) == Len(s) + Cardinality({i \in DOMAIN s : Utf8Len(s[i]) = 2})

None == "None"

CharsNth(s, i) == IF i < Len(s) THEN s[i + 1] ELSE None

-----------------------------------------------------------------------------
(* Messages *)

MsgLimit == "execution terminated by engine (instruction limit exceeded)"
MsgMemLimit == "failed to increment pointer (runtime memory limit exceeded)"
MsgIncPtr == "incremented pointer by 1"
MsgUnderflow == "can't decrement pointer sub-0!"
MsgDecPtr == "decremented pointer by 1"
MsgIncByte == "incremented byte by 1"
MsgIncWrap == "wrapped overflow byte back to 0x00"
MsgDecByte == "decremented byte by 1"
MsgDecWrap == "wrapped overflow byte back to 0xFF"
MsgOutput == "copied byte from memory to output"
MsgInput == "copied byte from input to memory"
MsgNoClose == "hit end of instructions w/o finding matching close bracket!"
MsgFoundClose == "found matching close bracket"
MsgOpenNoSeek == "byte is non-zero, no bracket seek necessary"
MsgNoOpen == "hit beginning of instructions w/o finding matching open bracket!"
MsgFoundOpen == "found matching open bracket"
MsgCloseNoSeek == "byte is zero, no bracket seek necessary"

-----------------------------------------------------------------------------
(* Values *)

Zeros(n) == [i \in 1..n |-> 0]

RuntimeSnapshot_new(mem, mp, ip, inp, out, mpmax, is_error, message) ==
    [memory |-> SubSeq(mem, 1, mpmax + 1),
     memory_pointer |-> mp,
     instruction_pointer |-> ip,
     input_pointer |-> inp,
     output |-> out,
     is_error |-> is_error,
     message |-> message]

RuntimeProduct_new(snaps, out, executions) ==
    [returned |-> TRUE, snapshots |-> snaps, output |-> out,
     executions |-> executions]

NoProduct ==
    [returned |-> FALSE, snapshots |-> <<>>, output |-> <<>>, executions |-> 0]

Ok(message) == [kind |-> "ok", message |-> message]
Err(message) == [kind |-> "err", message |-> message]
Panic == [kind |-> "panic", message |-> "called Option::unwrap() on a None value"]

-----------------------------------------------------------------------------
(* Handlers *)

Capacity(mem) == Len(mem)

(* expand_memory that leaves the added cells uninitialised (nonzero). *)
expand_memory_dirty(mem, limit) ==
    LET wanted == (Capacity(mem) \div 2) + 1
        additional == IF limit > 0 /\ Capacity(mem) + wanted > limit
                      THEN limit - Capacity(mem)
                      ELSE wanted
    IN [memory |-> mem \o [i \in 1..additional |-> 1], additional |-> additional]

(* expand_memory with the clamp to the memory limit left out. *)
expand_memory_unclamped(mem, limit) ==
    LET additional == (Capacity(mem) \div 2) + 1
    IN [memory |-> mem \o Zeros(additional), additional |-> additional]

expand_memory(mem, limit) ==
    LET wanted == (Capacity(mem) \div 2) + 1
        additional == IF limit > 0 /\ Capacity(mem) + wanted > limit
                      THEN limit - Capacity(mem)
                      ELSE wanted
    IN [memory |-> mem \o Zeros(additional), additional |-> additional]

(* next_input_byte that moves the input pointer at exhaustion too. *)
next_input_byte_advancing(inp, inptr) ==
    IF inptr >= Len(inp)
    THEN [byte |-> InputSentinel, input_pointer |-> inptr + 1]
    ELSE [byte |-> inp[inptr + 1], input_pointer |-> inptr + 1]

(* next_input_byte returning 0 once the input is exhausted. *)
next_input_byte_zero(inp, inptr) ==
    IF inptr >= Len(inp)
    THEN [byte |-> 0, input_pointer |-> inptr]
    ELSE [byte |-> inp[inptr + 1], input_pointer |-> inptr + 1]

next_input_byte(inp, inptr) ==
    IF inptr >= Len(inp)
    THEN [byte |-> InputSentinel, input_pointer |-> inptr]
    ELSE [byte |-> inp[inptr + 1], input_pointer |-> inptr + 1]

(* increment_pointer that refuses as soon as the tape has reached the      *)
(* memory limit, wherever the pointer is.                                  *)
increment_pointer_eager(mem, mp, limit) ==
    IF limit > 0 /\ Capacity(mem) >= limit
    THEN [memory |-> mem, memory_pointer |-> mp, result |-> Err(MsgMemLimit)]
    ELSE IF mp + 1 >= Capacity(mem)
    THEN [memory |-> expand_memory(mem, limit).memory, memory_pointer |-> mp + 1,
          result |-> Ok(MsgIncPtr)]
    ELSE [memory |-> mem, memory_pointer |-> mp + 1, result |-> Ok(MsgIncPtr)]

increment_pointer(mem, mp, limit) ==
    IF mp + 1 >= Capacity(mem)
    THEN LET e == expand_memory(mem, limit) IN
         IF e.additional = 0
         THEN [memory |-> e.memory, memory_pointer |-> mp, result |-> Err(MsgMemLimit)]
         ELSE [memory |-> e.memory, memory_pointer |-> mp + 1, result |-> Ok(MsgIncPtr)]
    ELSE [memory |-> mem, memory_pointer |-> mp + 1, result |-> Ok(MsgIncPtr)]

(* decrement_pointer that stays at 0 without reporting the underflow. *)
decrement_pointer_saturating(mp) ==
    IF mp = 0
    THEN [memory_pointer |-> mp, result |-> Ok(MsgDecPtr)]
    ELSE [memory_pointer |-> mp - 1, result |-> Ok(MsgDecPtr)]

decrement_pointer(mp) ==
    IF mp = 0
    THEN [memory_pointer |-> mp, result |-> Err(MsgUnderflow)]
    ELSE [memory_pointer |-> mp - 1, result |-> Ok(MsgDecPtr)]

(* increment_byte that stays at 255 instead of wrapping. *)
increment_byte_saturating(mem, mp) ==
    IF mem[mp + 1] < ByteMax
    THEN [memory |-> [mem EXCEPT ![mp + 1] = @ + 1], result |-> Ok(MsgIncByte)]
    ELSE [memory |-> mem, result |-> Ok(MsgIncWrap)]

increment_byte(mem, mp) ==
    IF mem[mp + 1] < ByteMax
    THEN [memory |-> [mem EXCEPT ![mp + 1] = @ + 1], result |-> Ok(MsgIncByte)]
    ELSE [memory |-> [mem EXCEPT ![mp + 1] = 0], result |-> Ok(MsgIncWrap)]

decrement_byte(mem, mp) ==
    IF mem[mp + 1] > 0
    THEN [memory |-> [mem EXCEPT ![mp + 1] = @ - 1], result |-> Ok(MsgDecByte)]
    ELSE [memory |-> [mem EXCEPT ![mp + 1] = ByteMax], result |-> Ok(MsgDecWrap)]

(* output_byte that pushes the byte twice. *)
output_byte_twice(mem, mp, out) ==
    [output |-> Append(Append(out, mem[mp + 1]), mem[mp + 1]), result |-> Ok(MsgOutput)]

output_byte(mem, mp, out) ==
    [output |-> Append(out, mem[mp + 1]), result |-> Ok(MsgOutput)]

input_byte(mem, mp, inp, inptr) ==
    LET n == next_input_byte(inp, inptr) IN
    [memory |-> [mem EXCEPT ![mp + 1] = n.byte],
     input_pointer |-> n.input_pointer,
     result |-> Ok(MsgInput)]

(* The loop of handle_open_bracket, from instruction pointer ip with       *)
(* open_count brackets still open.  open_count is a u16; it stays below    *)
(* the length of the program, far from 65536 within the bounds.            *)
RECURSIVE SeekForward(_, _, _)
SeekForward(instr, ip, open_count) ==
    IF ip + 1 >= StrLen(instr)
    THEN [instruction_pointer |-> ip, result |-> Err(MsgNoClose)]
    ELSE LET c == CharsNth(instr, ip + 1) IN
         IF c = None THEN [instruction_pointer |-> ip + 1, result |-> Panic]
         ELSE IF c = "[" THEN SeekForward(instr, ip + 1, open_count + 1)
         ELSE IF c = "]"
              THEN IF open_count > 0
                   THEN SeekForward(instr, ip + 1, open_count - 1)
                   ELSE [instruction_pointer |-> ip + 1, result |-> Ok(MsgFoundClose)]
         ELSE SeekForward(instr, ip + 1, open_count)

(* handle_open_bracket that never seeks. *)
handle_open_bracket_no_seek(instr, ip, mem, mp) ==
    [instruction_pointer |-> ip, result |-> Ok(MsgOpenNoSeek)]

handle_open_bracket(instr, ip, mem, mp) ==
    IF mem[mp + 1] = 0
    THEN SeekForward(instr, ip, 0)
    ELSE [instruction_pointer |-> ip, result |-> Ok(MsgOpenNoSeek)]

(* The loop of handle_close_bracket. *)
RECURSIVE SeekBackward(_, _, _)
SeekBackward(instr, ip, close_count) ==
    IF ip <= 0
    THEN [instruction_pointer |-> ip, result |-> Err(MsgNoOpen)]
    ELSE LET c == CharsNth(instr, ip - 1) IN
         IF c = None THEN [instruction_pointer |-> ip - 1, result |-> Panic]
         ELSE IF c = "]" THEN SeekBackward(instr, ip - 1, close_count + 1)
         ELSE IF c = "["
              THEN IF close_count > 0
                   THEN SeekBackward(instr, ip - 1, close_count - 1)
                   ELSE [instruction_pointer |-> ip - 1, result |-> Ok(MsgFoundOpen)]
         ELSE SeekBackward(instr, ip - 1, close_count)

(* handle_close_bracket with the test of the cell inverted. *)
handle_close_bracket_inverted(instr, ip, mem, mp) ==
    IF mem[mp + 1] = 0
    THEN SeekBackward(instr, ip, 0)
    ELSE [instruction_pointer |-> ip, result |-> Ok(MsgCloseNoSeek)]

(* handle_close_bracket that seeks only from a cell above 1. *)
handle_close_bracket_above_one(instr, ip, mem, mp) ==
    IF mem[mp + 1] > 1
    THEN SeekBackward(instr, ip, 0)
    ELSE [instruction_pointer |-> ip, result |-> Ok(MsgCloseNoSeek)]

handle_close_bracket(instr, ip, mem, mp) ==
    IF mem[mp + 1] # 0
    THEN SeekBackward(instr, ip, 0)
    ELSE [instruction_pointer |-> ip, result |-> Ok(MsgCloseNoSeek)]

-----------------------------------------------------------------------------
(* Runtime::run *)

LoopGuard == instruction_pointer < StrLen(instructions)

(* The limit test with > in place of >=. *)
ExecutionLimitReached_late ==
    execution_limit > 0 /\ Len(snapshots) > execution_limit

ExecutionLimitReached ==
    execution_limit > 0 /\ Len(snapshots) >= execution_limit

(* The character the match of run is about to dispatch on. *)
Current == CharsNth(instructions, instruction_pointer)

Dispatching(c) ==
    /\ status = "running"
    /\ LoopGuard
    /\ ~ExecutionLimitReached
    /\ Len(snapshots) < step_cap
    /\ Current = c

(* Record without the break of line 260: the run goes on after an error. *)
Record_no_break(result, mem, mp, ip, inptr, out, mpmax) ==
    /\ memory' = mem
    /\ memory_pointer' = mp
    /\ input_pointer' = inptr
    /\ output' = out
    /\ memory_pointer_max' = mpmax
    /\ UNCHANGED config
    /\ IF result.kind = "panic"
       THEN /\ status' = "panicked"
            /\ instruction_pointer' = ip
            /\ UNCHANGED <<snapshots, product>>
       ELSE /\ snapshots' = Append(snapshots,
                    RuntimeSnapshot_new(mem, mp, ip, inptr, out, mpmax,
                                        result.kind = "err", result.message))
            /\ instruction_pointer' = ip + 1
            /\ status' = "running"
            /\ UNCHANGED product

(* Lines 255-264: what run does with a handler's result, the state the     *)
(* handler left being (mem, mp, ip, inptr, out) and the high-water mark    *)
(* mpmax.                                                                  *)
Record(result, mem, mp, ip, inptr, out, mpmax) ==
    /\ memory' = mem
    /\ memory_pointer' = mp
    /\ input_pointer' = inptr
    /\ output' = out
    /\ memory_pointer_max' = mpmax
    /\ UNCHANGED config
    /\ IF result.kind = "panic"
       THEN /\ status' = "panicked"
            /\ instruction_pointer' = ip
            /\ UNCHANGED <<snapshots, product>>
       ELSE LET snap == RuntimeSnapshot_new(mem, mp, ip, inptr, out, mpmax,
                                            result.kind = "err", result.message)
                snaps == Append(snapshots, snap)
            IN /\ snapshots' = snaps
               /\ IF result.kind = "ok"
                  THEN /\ instruction_pointer' = ip + 1
                       /\ status' = "running"
                       /\ UNCHANGED product
                  ELSE /\ instruction_pointer' = ip
                       /\ status' = "halted_error"
                       /\ product' = RuntimeProduct_new(snaps, out, Len(snaps))

(* Lines 230-235 *)
ExecutionLimitHalt ==
    /\ status = "running"
    /\ LoopGuard
    /\ ExecutionLimitReached
    /\ LET snap == RuntimeSnapshot_new(memory, memory_pointer, instruction_pointer,
                                       input_pointer, output, memory_pointer_max,
                                       TRUE, MsgLimit)
           snaps == Append(snapshots, snap)
       IN /\ snapshots' = snaps
          /\ product' = RuntimeProduct_new(snaps, output, Len(snaps) - 1)
    /\ status' = "halted_limit"
    /\ UNCHANGED <<runtime, config, memory_pointer_max>>

(* Line 238: chars().nth(instruction_pointer) is None, unwrap panics. *)
DispatchPanic ==
    /\ Dispatching(None)
    /\ status' = "panicked"
    /\ UNCHANGED <<runtime, config, snapshots, memory_pointer_max, product>>

(* MoveRight with the update of memory_pointer_max left out. *)
MoveRight_no_mark ==
    /\ Dispatching(">")
    /\ LET r == increment_pointer(memory, memory_pointer, memory_limit)
       IN Record(r.result, r.memory, r.memory_pointer, instruction_pointer,
                 input_pointer, output, memory_pointer_max)

MoveRight ==
    /\ Dispatching(">")
    /\ LET r == increment_pointer(memory, memory_pointer, memory_limit)
           mpmax == IF r.memory_pointer > memory_pointer_max
                    THEN r.memory_pointer ELSE memory_pointer_max
       IN Record(r.result, r.memory, r.memory_pointer, instruction_pointer,
                 input_pointer, output, mpmax)

MoveLeft ==
    /\ Dispatching("<")
    /\ LET r == decrement_pointer(memory_pointer)
       IN Record(r.result, memory, r.memory_pointer, instruction_pointer,
                 input_pointer, output, memory_pointer_max)

Increment ==
    /\ Dispatching("+")
    /\ LET r == increment_byte(memory, memory_pointer)
       IN Record(r.result, r.memory, memory_pointer, instruction_pointer,
                 input_pointer, output, memory_pointer_max)

Decrement ==
    /\ Dispatching("-")
    /\ LET r == decrement_byte(memory, memory_pointer)
       IN Record(r.result, r.memory, memory_pointer, instruction_pointer,
                 input_pointer, output, memory_pointer_max)

Output ==
    /\ Dispatching(".")
    /\ LET r == output_byte(memory, memory_pointer, output)
       IN Record(r.result, memory, memory_pointer, instruction_pointer,
                 input_pointer, r.output, memory_pointer_max)

Input ==
    /\ Dispatching(",")
    /\ LET r == input_byte(memory, memory_pointer, input, input_pointer)
       IN Record(r.result, r.memory, memory_pointer, instruction_pointer,
                 r.input_pointer, output, memory_pointer_max)

OpenBracket ==
    /\ Dispatching("[")
    /\ LET r == handle_open_bracket(instructions, instruction_pointer,
                                    memory, memory_pointer)
       IN Record(r.result, memory, memory_pointer, r.instruction_pointer,
                 input_pointer, output, memory_pointer_max)

CloseBracket ==
    /\ Dispatching("]")
    /\ LET r == handle_close_bracket(instructions, instruction_pointer,
                                     memory, memory_pointer)
       IN Record(r.result, memory, memory_pointer, r.instruction_pointer,
                 input_pointer, output, memory_pointer_max)

(* Line 252: any other character; lines 255 and 264. *)
Comment ==
    /\ \E c \in Chars \ Instr : Dispatching(c)
    /\ instruction_pointer' = instruction_pointer + 1
    /\ UNCHANGED <<input_pointer, memory, memory_pointer, output, config,
                   snapshots, memory_pointer_max, status, product>>

(* Lines 227 and 267-268: the loop guard fails, run returns. *)
Return ==
    /\ status = "running"
    /\ ~LoopGuard
    /\ status' = "halted_normally"
    /\ product' = RuntimeProduct_new(snapshots, output, Len(snapshots))
    /\ UNCHANGED <<runtime, config, snapshots, memory_pointer_max>>

Next ==
    \/ ExecutionLimitHalt
    \/ DispatchPanic
    \/ MoveRight
    \/ MoveLeft
    \/ Increment
    \/ Decrement
    \/ Output
    \/ Input
    \/ OpenBracket
    \/ CloseBracket
    \/ Comment
    \/ Return

-----------------------------------------------------------------------------
(* Runtime::run as a function of the configuration: the state a whole run  *)
(* ends in, for the properties that compare two runs.                      *)

(* The match of lines 238-253 on an instruction c, from the runtime rt. *)
dispatch(c, instr, inp, mlimit, rt) ==
    IF c = ">"
    THEN LET r == increment_pointer(rt.memory, rt.memory_pointer, mlimit)
         IN [rt EXCEPT !.memory = r.memory,
                       !.memory_pointer = r.memory_pointer,
                       !.memory_pointer_max =
                           IF r.memory_pointer > rt.memory_pointer_max
                           THEN r.memory_pointer ELSE rt.memory_pointer_max,
                       !.result = r.result]
    ELSE IF c = "<"
    THEN LET r == decrement_pointer(rt.memory_pointer)
         IN [rt EXCEPT !.memory_pointer = r.memory_pointer, !.result = r.result]
    ELSE IF c = "+"
    THEN LET r == increment_byte(rt.memory, rt.memory_pointer)
         IN [rt EXCEPT !.memory = r.memory, !.result = r.result]
    ELSE IF c = "-"
    THEN LET r == decrement_byte(rt.memory, rt.memory_pointer)
         IN [rt EXCEPT !.memory = r.memory, !.result = r.result]
    ELSE IF c = "."
    THEN LET r == output_byte(rt.memory, rt.memory_pointer, rt.output)
         IN [rt EXCEPT !.output = r.output, !.result = r.result]
    ELSE IF c = ","
    THEN LET r == input_byte(rt.memory, rt.memory_pointer, inp, rt.input_pointer)
         IN [rt EXCEPT !.memory = r.memory, !.input_pointer = r.input_pointer,
                       !.result = r.result]
    ELSE IF c = "["
    THEN LET r == handle_open_bracket(instr, rt.instruction_pointer,
                                      rt.memory, rt.memory_pointer)
         IN [rt EXCEPT !.instruction_pointer = r.instruction_pointer,
                       !.result = r.result]
    ELSE LET r == handle_close_bracket(instr, rt.instruction_pointer,
                                       rt.memory, rt.memory_pointer)
         IN [rt EXCEPT !.instruction_pointer = r.instruction_pointer,
                       !.result = r.result]

snapshot_of(rt, is_error, message) ==
    RuntimeSnapshot_new(rt.memory, rt.memory_pointer, rt.instruction_pointer,
                        rt.input_pointer, rt.output, rt.memory_pointer_max,
                        is_error, message)

(* The while loop of lines 227-265 and the return of lines 267-268, from   *)
(* the runtime rt; a run that has recorded cap snapshots without halting   *)
(* is left "running".                                                      *)
RECURSIVE run_loop(_, _, _, _, _, _)
run_loop(instr, inp, elimit, mlimit, cap, rt) ==
    IF ~(rt.instruction_pointer < StrLen(instr))
    THEN [status |-> "halted_normally",
          product |-> RuntimeProduct_new(rt.snapshots, rt.output, Len(rt.snapshots))]
    ELSE IF elimit > 0 /\ Len(rt.snapshots) >= elimit
    THEN LET snaps == Append(rt.snapshots, snapshot_of(rt, TRUE, MsgLimit))
         IN [status |-> "halted_limit",
             product |-> RuntimeProduct_new(snaps, rt.output, Len(snaps) - 1)]
    ELSE IF Len(rt.snapshots) >= cap
    THEN [status |-> "running", product |-> NoProduct]
    ELSE LET c == CharsNth(instr, rt.instruction_pointer) IN
         IF c = None
         THEN [status |-> "panicked", product |-> NoProduct]
         ELSE IF c \notin Instr
         THEN run_loop(instr, inp, elimit, mlimit, cap,
                       [rt EXCEPT !.instruction_pointer = @ + 1])
         ELSE LET d == dispatch(c, instr, inp, mlimit, rt) IN
              IF d.result.kind = "panic"
              THEN [status |-> "panicked", product |-> NoProduct]
              ELSE LET snaps == Append(rt.snapshots,
                                  snapshot_of(d, d.result.kind = "err",
                                              d.result.message))
                   IN IF d.result.kind = "err"
                      THEN [status |-> "halted_error",
                            product |-> RuntimeProduct_new(snaps, d.output, Len(snaps))]
                      ELSE run_loop(instr, inp, elimit, mlimit, cap,
                                    [d EXCEPT !.snapshots = snaps,
                                              !.instruction_pointer = @ + 1])

(* with_limits followed by run. *)
run(instr, inp, elimit, mlimit, cap) ==
    run_loop(instr, inp, elimit, mlimit, cap,
             [memory |-> <<0>>, memory_pointer |-> 0, instruction_pointer |-> 0,
              input_pointer |-> 0, output |-> <<>>, snapshots |-> <<>>,
              memory_pointer_max |-> 0, result |-> Ok("")])

-----------------------------------------------------------------------------
(* Runtime::with_limits, and the runs that are checked *)

with_limits(instr, inp, elimit, mlimit, cap) ==
    /\ instructions = instr
    /\ instruction_pointer = 0
    /\ input = inp
    /\ input_pointer = 0
    /\ memory = <<0>>
    /\ memory_pointer = 0
    /\ output = <<>>
    /\ execution_limit = elimit
    /\ memory_limit = mlimit
    /\ snapshots = <<>>
    /\ memory_pointer_max = 0
    /\ status = "running"
    /\ product = NoProduct
    /\ step_cap = cap

SeqsUpTo(S, n) == UNION {[1..k -> S] : k \in 0..n}

Rep(c, n) == [i \in 1..n |-> c]

Run(instr, inp, elimit, mlimit) ==
    [instructions |-> instr, input |-> inp,
     execution_limit |-> elimit, memory_limit |-> mlimit]

EnumInputs == {<<>>, <<65>>}

(* The example runs of the specification's testable properties, and runs   *)
(* of the same kind that reach the memory clamp, a comment and a wide      *)
(* character.                                                              *)
EchoProgram == <<",", "[", ".", ",", "]">>

ExampleRuns ==
    {Run(<<>>, inp, elimit, mlimit) :
        inp \in {<<>>, <<65, 66>>}, elimit \in 0..2, mlimit \in 0..2}
    \cup
    {Run(<<"+", "+", "+", ".">>, <<>>, 0, 0),
     Run(<<"-">>, <<>>, 0, 0),
     Run(<<"<">>, <<>>, 0, 0),
     Run(<<"[", "+", "]">>, <<>>, 0, 0),
     Run(<<"+", "[", "-", "]">>, <<>>, 0, 0),
     Run(EchoProgram, <<65, 66>>, 0, 0),
     Run(Rep("+", 5), <<>>, 2, 0),
     Run(<<">">>, <<>>, 0, 1),
     Run(Rep(">", 4), <<>>, 0, 3),
     Run(Rep(">", 5), <<>>, 0, 0),
     Run(<<"+", AsciiComment, ".">>, <<>>, 0, 0),
     Run(<<"+", WideComment, ".">>, <<>>, 0, 0),
     Run(<<"+", "[", "[", "-", "]", "]">>, <<>>, 0, 0),
     Run(<<"]", "+", "]">>, <<>>, 0, 0),
     Run(<<"[", "[", "+", "]", "]", "+">>, <<>>, 0, 0),
     Run(<<"+", "[", "]">>, <<>>, 4, 0)}

(* n increments followed by [-], for the small n and for the largest cell  *)
(* value.                                                                  *)
CountdownProgram(n) == Rep("+", n) \o <<"[", "-", "]">>

CountdownRuns ==
    {Run(CountdownProgram(n), <<>>, 0, 0) : n \in (1..MaxCountdown) \cup {ByteMax}}

(* Two cells read from the input, the second one then incremented or      *)
(* decremented, for every value of that cell.                             *)
ByteRuns ==
    {Run(<<",", ">", ",", op>>, <<7, v>>, 0, 0) : v \in 0..ByteMax, op \in {"+", "-"}}

Start(runs, cap) ==
    \E r \in runs :
        with_limits(r.instructions, r.input, r.execution_limit, r.memory_limit, cap)

(* Every program of at most MaxProg characters, under every small input    *)
(* and every small pair of limits.                                         *)
InitEnum ==
    \E instr \in SeqsUpTo(Chars, MaxProg), inp \in EnumInputs,
       elimit \in 0..MaxExecLimit, mlimit \in 0..MaxMemLimit :
        with_limits(instr, inp, elimit, mlimit, MaxSteps)

Init == InitEnum \/ Start(ExampleRuns, MaxSteps)

Spec == Init /\ [][Next]_vars

InitCountdown ==
    Start(ExampleRuns, MaxSteps) \/ Start(CountdownRuns, MaxCountdownSteps)

SpecCountdown == InitCountdown /\ [][Next]_vars

(* Every text of at most MaxSeekLen characters over the two brackets, an   *)
(* instruction and a two-byte comment character, run without limits.       *)
SeekChars == {"[", "]", "+", WideComment}

InitSeek ==
    \/ Start(ExampleRuns, MaxSteps)
    \/ \E instr \in SeqsUpTo(SeekChars, MaxSeekLen) :
           with_limits(instr, <<>>, 0, 0, MaxSteps)

SpecSeek == InitSeek /\ [][Next]_vars

InitByte == Start(ExampleRuns \cup ByteRuns, MaxSteps)

SpecByte == InitByte /\ [][Next]_vars

-----------------------------------------------------------------------------
(* Properties *)

Last(s) == s[Len(s)]

OkSnapshots == {i \in DOMAIN snapshots : ~snapshots[i].is_error}

ErrorSnapshots == {i \in DOMAIN snapshots : snapshots[i].is_error}

Cell == memory[memory_pointer + 1]

(* C1: with execution_limit = L > 0 a run never holds more than L ok       *)
(* snapshots, and never more than L snapshots while it is running; a step  *)
(* taken with L snapshots recorded and the instruction pointer inside the  *)
(* program appends exactly one snapshot, an error with the instruction-    *)
(* limit message that copies the state as it is, changes nothing of the    *)
(* runtime (the current instruction is not dispatched), ends the run and   *)
(* reports L executions.                                                   *)
C1_ExecutionLimit ==
    [][/\ execution_limit' > 0 =>
            /\ Cardinality(OkSnapshots') <= execution_limit'
            /\ status' = "running" => Len(snapshots') <= execution_limit'
       /\ (/\ status = "running"
           /\ execution_limit > 0
           /\ Len(snapshots) = execution_limit
           /\ instruction_pointer < StrLen(instructions))
          => /\ Len(snapshots') = execution_limit + 1
             /\ SubSeq(snapshots', 1, execution_limit) = snapshots
             /\ Last(snapshots').is_error
             /\ Last(snapshots').message = MsgLimit
             /\ Last(snapshots').instruction_pointer = instruction_pointer
             /\ Last(snapshots').memory_pointer = memory_pointer
             /\ Last(snapshots').output = output
             /\ UNCHANGED runtime
             /\ status' = "halted_limit"
             /\ product'.returned
             /\ product'.snapshots = snapshots'
             /\ product'.executions = execution_limit
             /\ product'.executions = Len(product'.snapshots) - 1]_vars

(* A run cut by the limit in the middle of the program. *)
C1_Witness ==
    /\ status = "halted_limit"
    /\ execution_limit > 0
    /\ Len(snapshots) = execution_limit + 1
    /\ Cardinality(OkSnapshots) = execution_limit
    /\ Last(snapshots).message = MsgLimit
    /\ instruction_pointer + 1 < Len(instructions)
    /\ product.executions = execution_limit

(* C2: with memory_limit = M > 0 the tape never holds more than M cells;   *)
(* with M = 1 the program > records nothing while it runs and ends with    *)
(* one snapshot, the memory-limit error, the tape still being one cell.    *)
C2_MemoryLimit ==
    /\ memory_limit > 0 => Len(memory) <= memory_limit
    /\ (instructions = <<">">> /\ memory_limit = 1) =>
          /\ memory = <<0>>
          /\ memory_pointer = 0
          /\ status \in {"running", "halted_error"}
          /\ status = "running" => snapshots = <<>>
          /\ status = "halted_error" =>
                /\ Len(snapshots) = 1
                /\ snapshots[1].is_error
                /\ snapshots[1].message = MsgMemLimit
                /\ snapshots[1].memory = <<0>>
                /\ product.snapshots = snapshots

(* The program > has failed under memory_limit = 1. *)
C2_Witness ==
    /\ instructions = <<">">>
    /\ memory_limit = 1
    /\ status = "halted_error"
    /\ Last(snapshots).message = MsgMemLimit
    /\ Len(memory) = 1

EchoRun ==
    /\ instructions = EchoProgram
    /\ input = <<65, 66>>
    /\ execution_limit = 0
    /\ memory_limit = 0

(* The bytes the echo run writes: the input, then the sentinel for ever. *)
EchoByte(i) == IF i <= Len(input) THEN input[i] ELSE InputSentinel

(* C3, as amended: the echo program on input [65, 66] without limits       *)
(* never halts: it is running in every state and can take a step as long   *)
(* as the model lets the trace grow; its output is 65, 66 and then 255     *)
(* at every later position.                                                *)
C3_EchoNeverHalts ==
    EchoRun =>
        /\ status = "running"
        /\ Len(snapshots) < step_cap => ENABLED Next
        /\ \A i \in DOMAIN output : output[i] = EchoByte(i)
        /\ Len(snapshots) >= 9 => SubSeq(output, 1, 3) = <<65, 66, 255>>

(* The echo run has written a fourth byte. *)
C3_Witness ==
    /\ EchoRun
    /\ output = <<65, 66, 255, 255>>
    /\ status = "running"

(* C3 as stated: the echo run writes nothing but [65, 66, 255] and, once   *)
(* it has stopped, has halted normally with exactly that output.           *)
C3_EchoHalts ==
    EchoRun =>
        /\ Len(output) <= 3
        /\ status \in {"running", "halted_normally"}
        /\ status = "halted_normally" => product.output = <<65, 66, 255>>

(* C4: a move-left dispatched with memory_pointer = 0 records the          *)
(* underflow error, ends the run and leaves memory_pointer at 0 and the    *)
(* tape, the input pointer and the output as they were; dispatched with    *)
(* memory_pointer > 0 it records an ok snapshot and lowers memory_pointer  *)
(* by exactly 1.  The program < ends with exactly one snapshot, an error,  *)
(* and empty output.                                                       *)
C4_PointerUnderflow ==
    [][/\ (Dispatching("<") /\ memory_pointer = 0) =>
            /\ Len(snapshots') = Len(snapshots) + 1
            /\ Last(snapshots').is_error
            /\ Last(snapshots').message = MsgUnderflow
            /\ memory_pointer' = 0
            /\ UNCHANGED <<memory, input_pointer, output>>
            /\ status' = "halted_error"
       /\ (Dispatching("<") /\ memory_pointer > 0) =>
            /\ memory_pointer' = memory_pointer - 1
            /\ Len(snapshots') = Len(snapshots) + 1
            /\ ~Last(snapshots').is_error
            /\ status' = "running"
       /\ (instructions = <<"<">> /\ status' # "running") =>
            /\ Len(snapshots') = 1
            /\ snapshots'[1].is_error
            /\ snapshots'[1].message = MsgUnderflow
            /\ product'.snapshots = snapshots'
            /\ product'.output = <<>>]_vars

(* A move-left has failed at the left end after other instructions. *)
C4_Witness ==
    /\ status = "halted_error"
    /\ Len(snapshots) >= 2
    /\ Last(snapshots).message = MsgUnderflow
    /\ memory_pointer = 0
    /\ output # <<>>

(* The brackets of the text s at the 0-based positions a..b are balanced. *)
Count(s, c, a, b) == Cardinality({k \in a..b : s[k + 1] = c})

Balanced(s, a, b) ==
    /\ Count(s, "[", a, b) = Count(s, "]", a, b)
    /\ \A k \in a..b : Count(s, "[", a, k) >= Count(s, "]", a, k)

(* The loop-closes that match the loop-open at position i. *)
MatchingCloses(s, i) ==
    {j \in (i + 1)..(Len(s) - 1) : s[j + 1] = "]" /\ Balanced(s, i + 1, j - 1)}

Min(S) == CHOOSE x \in S : \A y \in S : x <= y

(* C5: a loop-open dispatched on a zero cell that has a matching           *)
(* loop-close records one ok snapshot at the position of that loop-close   *)
(* and continues behind it, the tape, both other pointers and the output   *)
(* unchanged: nothing between the two is executed.  The program [+] never  *)
(* executes its increment, keeps the cell at 0 and halts normally.         *)
C5_LoopSkip ==
    [][/\ (/\ Dispatching("[")
           /\ Cell = 0
           /\ MatchingCloses(instructions, instruction_pointer) # {})
          => LET j == Min(MatchingCloses(instructions, instruction_pointer))
             IN /\ Len(snapshots') = Len(snapshots) + 1
                /\ ~Last(snapshots').is_error
                /\ Last(snapshots').instruction_pointer = j
                /\ instruction_pointer' = j + 1
                /\ UNCHANGED <<memory, memory_pointer, input_pointer, output>>
                /\ status' = "running"
       /\ instructions = <<"[", "+", "]">> =>
            /\ memory' = <<0>>
            /\ \A i \in DOMAIN snapshots' :
                   /\ snapshots'[i].message # MsgIncByte
                   /\ snapshots'[i].instruction_pointer # 1
            /\ status' \in {"running", "halted_normally"}
            /\ status' = "running" => ENABLED Next]_vars

(* A nested loop has been skipped and the run has gone on behind it. *)
C5_Witness ==
    /\ instructions = <<"[", "[", "+", "]", "]", "+">>
    /\ status = "halted_normally"
    /\ Len(snapshots) = 2
    /\ snapshots[1].message = MsgFoundClose
    /\ snapshots[1].instruction_pointer = 4
    /\ memory = <<1>>

CountdownN == Len(instructions) - 3

IsCountdown ==
    /\ CountdownN \in 1..ByteMax
    /\ instructions = CountdownProgram(CountdownN)
    /\ execution_limit = 0
    /\ memory_limit = 0

(* The snapshots taken of the decrement of a countdown program. *)
DecrementSnapshots ==
    {i \in DOMAIN snapshots : snapshots[i].instruction_pointer = CountdownN + 1}

(* C6: the program of n increments followed by [-], 1 <= n <= 255, run     *)
(* without limits, only ever runs or has halted normally, can always step  *)
(* while it runs, records at most 3n + 1 snapshots and at most n of the    *)
(* decrement; once halted the cell is 0, no snapshot is an error and       *)
(* exactly n snapshots are of the decrement.                               *)
C6_LoopRunsWhileNonzero ==
    IsCountdown =>
        /\ status \in {"running", "halted_normally"}
        /\ status = "running" => ENABLED Next
        /\ Len(snapshots) <= 3 * CountdownN + 1
        /\ Cardinality(DecrementSnapshots) <= CountdownN
        /\ status = "halted_normally" =>
              /\ memory = <<0>>
              /\ ErrorSnapshots = {}
              /\ Cardinality(DecrementSnapshots) = CountdownN
              /\ \A i \in DecrementSnapshots : snapshots[i].message = MsgDecByte
              /\ product.executions = 3 * CountdownN + 1

(* The countdown from 255 has halted. *)
C6_Witness ==
    /\ IsCountdown
    /\ CountdownN = ByteMax
    /\ status = "halted_normally"
    /\ memory = <<0>>
    /\ Cardinality(DecrementSnapshots) = ByteMax

StraightLine ==
    \A i \in DOMAIN instructions : instructions[i] \notin {"[", "]", ">", "<"}

(* The 0-based positions of the recognized instructions of the program. *)
InstrPositions == {i \in 0..(Len(instructions) - 1) : instructions[i + 1] \in Instr}

(* C7: a program without brackets and pointer moves, run with              *)
(* execution_limit = 0, only ever runs or has halted normally; once        *)
(* halted it holds one ok snapshot per recognized instruction, in program  *)
(* order, and reports that many executions.  The empty program ends with   *)
(* no snapshot, no output and 0 executions under every configuration, and  *)
(* +++. with output [3] and 4 ok snapshots.                                *)
C7_StraightLine ==
    /\ (StraightLine /\ execution_limit = 0) =>
          /\ status \in {"running", "halted_normally"}
          /\ status = "halted_normally" =>
                /\ Len(snapshots) = Cardinality(InstrPositions)
                /\ ErrorSnapshots = {}
                /\ \A i \in DOMAIN snapshots :
                       snapshots[i].instruction_pointer \in InstrPositions
                /\ \A i, j \in DOMAIN snapshots :
                       i < j => snapshots[i].instruction_pointer
                                  < snapshots[j].instruction_pointer
                /\ product.executions = Cardinality(InstrPositions)
    /\ instructions = <<>> =>
          /\ snapshots = <<>>
          /\ output = <<>>
          /\ status \in {"running", "halted_normally"}
          /\ status = "halted_normally" =>
                product = RuntimeProduct_new(<<>>, <<>>, 0)
    /\ (instructions = <<"+", "+", "+", ".">> /\ execution_limit = 0
            /\ status = "halted_normally") =>
          /\ product.output = <<3>>
          /\ Len(product.snapshots) = 4

(* C8: every step is taken by a running run, so a halted run records and   *)
(* dispatches nothing more; a step adds at most one snapshot; an error     *)
(* snapshot is the last one and comes with the end of the run, so a trace  *)
(* holds at most one.                                                      *)
C8_ErrorIsFinal ==
    [][/\ status = "running"
       /\ ErrorSnapshots = {}
       /\ \/ snapshots' = snapshots
          \/ /\ Len(snapshots') = Len(snapshots) + 1
             /\ SubSeq(snapshots', 1, Len(snapshots)) = snapshots
       /\ Cardinality(ErrorSnapshots') <= 1
       /\ \A i \in ErrorSnapshots' :
              /\ i = Len(snapshots')
              /\ status' \in {"halted_error", "halted_limit"}
              /\ product'.snapshots = snapshots'
       /\ status' \in {"halted_error", "halted_limit"} => ErrorSnapshots' # {}]_vars

(* A handler has failed with instructions left behind it. *)
C8_Witness ==
    /\ status = "halted_error"
    /\ Len(snapshots) >= 2
    /\ ErrorSnapshots = {Len(snapshots)}
    /\ instruction_pointer + 1 < Len(instructions)

(* C9: input_pointer stays within 0..Len(input) and no step lowers it; an  *)
(* input instruction with input left stores the byte at input_pointer in   *)
(* the current cell and advances input_pointer by 1; with the input        *)
(* exhausted it stores 255 and leaves input_pointer alone; either way the  *)
(* snapshot is ok and the run goes on.                                     *)
C9_InputCursor ==
    [][/\ input_pointer' >= input_pointer
       /\ input_pointer' <= Len(input')
       /\ Dispatching(",") =>
            /\ ~Last(snapshots').is_error
            /\ Last(snapshots').message = MsgInput
            /\ status' = "running"
            /\ memory_pointer' = memory_pointer
            /\ \A k \in DOMAIN memory :
                   k # memory_pointer + 1 => memory'[k] = memory[k]
            /\ IF input_pointer < Len(input)
               THEN /\ memory'[memory_pointer + 1] = input[input_pointer + 1]
                    /\ input_pointer' = input_pointer + 1
               ELSE /\ input_pointer = Len(input)
                    /\ memory'[memory_pointer + 1] = 255
                    /\ input_pointer' = input_pointer]_vars

(* A byte has been read, and then the sentinel. *)
C9_Witness ==
    /\ Len(snapshots) = 2
    /\ snapshots[1].message = MsgInput
    /\ snapshots[1].memory = <<65>>
    /\ snapshots[2].message = MsgInput
    /\ memory = <<255>>
    /\ input_pointer = 1
    /\ input = <<65>>

(* C10: an increment turns the current cell v into (v + 1) mod 256 and a   *)
(* decrement into (v - 1) mod 256; both record an ok snapshot and go on,   *)
(* the message tells a wrap exactly for v = 255 and v = 0 respectively,    *)
(* and the length of the tape, every other cell, memory_pointer,           *)
(* input_pointer and the output are unchanged.                             *)
C10_CellArithmetic ==
    [][/\ Dispatching("+") =>
            /\ memory' = [memory EXCEPT ![memory_pointer + 1] = (Cell + 1) % 256]
            /\ Last(snapshots').message = IF Cell = 255 THEN MsgIncWrap ELSE MsgIncByte
       /\ Dispatching("-") =>
            /\ memory' = [memory EXCEPT ![memory_pointer + 1] = (Cell + 255) % 256]
            /\ Last(snapshots').message = IF Cell = 0 THEN MsgDecWrap ELSE MsgDecByte
       /\ (Dispatching("+") \/ Dispatching("-")) =>
            /\ Len(snapshots') = Len(snapshots) + 1
            /\ ~Last(snapshots').is_error
            /\ status' = "running"
            /\ instruction_pointer' = instruction_pointer + 1
            /\ UNCHANGED <<memory_pointer, input_pointer, output>>]_vars

(* The second cell has wrapped from 0 to 255 beside a nonzero first cell. *)
C10_Witness ==
    /\ instructions = <<",", ">", ",", "-">>
    /\ input = <<7, 0>>
    /\ status = "halted_normally"
    /\ memory = <<7, 255>>
    /\ Last(snapshots).message = MsgDecWrap

IsPrefix(s, t) == Len(s) <= Len(t) /\ SubSeq(t, 1, Len(s)) = s

(* C11: an output instruction appends exactly the current cell to the      *)
(* output and no other step changes the output; the output copied into     *)
(* each snapshot is the output of that moment and a prefix of the next     *)
(* snapshot's; a returned product holds the final output, which is the     *)
(* last snapshot's output when there is a snapshot.                        *)
C11_OutputAppendOnly ==
    [][/\ Dispatching(".") => output' = Append(output, Cell)
       /\ ~Dispatching(".") => output' = output
       /\ snapshots' # snapshots => Last(snapshots').output = output'
       /\ \A i \in 1..(Len(snapshots') - 1) :
              IsPrefix(snapshots'[i].output, snapshots'[i + 1].output)
       /\ product'.returned =>
              /\ product'.output = output'
              /\ snapshots' # <<>> => product'.output = Last(snapshots').output]_vars

(* A run has returned after two output instructions with steps between. *)
C11_Witness ==
    /\ product.returned
    /\ Len(product.output) = 2
    /\ product.output = Last(snapshots).output
    /\ Len(snapshots) >= 3
    /\ snapshots[1].output # snapshots[2].output

(* C13: memory_pointer is a valid index of the tape in every state reached *)
(* by a step; a move-right that succeeds advances memory_pointer by        *)
(* exactly 1, keeps the cells there were and adds only zero cells.         *)
C13_PointerInBounds ==
    [][/\ memory_pointer' >= 0
       /\ memory_pointer' < Len(memory')
       /\ Len(memory') >= Len(memory)
       /\ (Dispatching(">") /\ status' = "running") =>
            /\ memory_pointer' = memory_pointer + 1
            /\ ~Last(snapshots').is_error
            /\ SubSeq(memory', 1, Len(memory)) = memory
            /\ \A k \in (Len(memory) + 1)..Len(memory') : memory'[k] = 0]_vars

(* The tape has grown by a clamped amount and the pointer is on its last   *)
(* cell.                                                                   *)
C13_Witness ==
    /\ memory_limit = 3
    /\ Len(memory) = 3
    /\ memory_pointer = 2
    /\ status = "running"
    /\ Last(snapshots).message = MsgIncPtr

MoveRightFailed ==
    /\ status' = "halted_error"
    /\ Len(snapshots') = Len(snapshots) + 1
    /\ Last(snapshots').is_error
    /\ Last(snapshots').message = MsgMemLimit

(* C14: a dispatched move-right fails with the memory-limit error exactly  *)
(* when memory_limit = M > 0 and memory_pointer = M - 1, and then the      *)
(* tape, memory_pointer, input_pointer and the output are unchanged; in    *)
(* every other case, and always with memory_limit = 0, it succeeds.        *)
C14_MemoryLimitExceeded ==
    [][Dispatching(">") =>
         /\ MoveRightFailed <=> (memory_limit > 0 /\ memory_pointer = memory_limit - 1)
         /\ MoveRightFailed =>
               /\ Len(memory) = memory_limit
               /\ UNCHANGED <<memory, memory_pointer, input_pointer, output>>
               /\ Last(snapshots').memory_pointer = memory_pointer
         /\ ~MoveRightFailed =>
               /\ status' = "running"
               /\ ~Last(snapshots').is_error
         /\ memory_limit = 0 => status' = "running"]_vars

(* A second move-right has failed on the last cell of a tape limited to    *)
(* two cells.                                                              *)
C14_Witness ==
    /\ status = "halted_error"
    /\ Last(snapshots).message = MsgMemLimit
    /\ memory_limit = 2
    /\ memory_pointer = 1
    /\ Len(memory) = 2
    /\ Len(snapshots) = 2

Maximum(S) == CHOOSE x \in S : \A y \in S : y <= x

(* The greatest memory_pointer a run has reached when its i-th snapshot    *)
(* is recorded, read off the snapshots themselves.                         *)
GreatestPointer(i) == Maximum({0} \cup {snapshots[j].memory_pointer : j \in 1..i})

(* C18: the tape copy of every snapshot has length 1 + the greatest        *)
(* memory_pointer reached up to and including the instruction it records;  *)
(* the length never decreases along the trace; the snapshot's              *)
(* memory_pointer is a valid index of its copy; the copy of the last       *)
(* snapshot is the head of the real tape and every real cell behind it is  *)
(* zero.                                                                   *)
C18_SnapshotTape ==
    /\ \A i \in DOMAIN snapshots :
         /\ Len(snapshots[i].memory) = 1 + GreatestPointer(i)
         /\ snapshots[i].memory_pointer < Len(snapshots[i].memory)
         /\ i > 1 => Len(snapshots[i - 1].memory) <= Len(snapshots[i].memory)
    /\ snapshots # <<>> =>
         LET copy == Last(snapshots).memory
         IN /\ Len(copy) <= Len(memory)
            /\ copy = SubSeq(memory, 1, Len(copy))
            /\ \A k \in (Len(copy) + 1)..Len(memory) : memory[k] = 0

(* The pointer has gone to cell 2 and come back: the copy has three cells, *)
(* the pointer is on the first, the real tape is longer than the copy.     *)
C18_Witness ==
    /\ snapshots # <<>>
    /\ Len(Last(snapshots).memory) = 3
    /\ Last(snapshots).memory_pointer < 2
    /\ Len(memory) > 3

(* What run makes of the result r of a bracket handler. *)
BracketOutcome(r) ==
    IF r.result.kind = "panic"
    THEN status' = "panicked" /\ snapshots' = snapshots
    ELSE /\ Len(snapshots') = Len(snapshots) + 1
         /\ Last(snapshots').message = r.result.message
         /\ Last(snapshots').is_error = (r.result.kind = "err")
         /\ Last(snapshots').instruction_pointer = r.instruction_pointer
         /\ IF r.result.kind = "ok"
            THEN status' = "running" /\ instruction_pointer' = r.instruction_pointer + 1
            ELSE status' = "halted_error" /\ instruction_pointer' = r.instruction_pointer

(* C16: a dispatched loop-open or loop-close changes neither the tape nor  *)
(* memory_pointer, input_pointer, the output or the high-water mark, and   *)
(* its outcome is the one the handler gives for the same text and          *)
(* position on a one-cell tape that holds 0 or 1 as the current cell is    *)
(* zero or not: nothing but the text, the position and whether the cell is *)
(* zero is read.                                                           *)
C16_BracketFrame ==
    [][(Dispatching("[") \/ Dispatching("]")) =>
         /\ UNCHANGED <<memory, memory_pointer, input_pointer, output,
                        memory_pointer_max, config>>
         /\ LET z == <<IF Cell = 0 THEN 0 ELSE 1>>
            IN IF Current = "["
               THEN BracketOutcome(handle_open_bracket(instructions,
                                      instruction_pointer, z, 0))
               ELSE BracketOutcome(handle_close_bracket(instructions,
                                      instruction_pointer, z, 0))]_vars

(* A loop-close has sought back from a cell holding 65 that was read from  *)
(* the input.                                                              *)
C16_Witness ==
    /\ snapshots # <<>>
    /\ Last(snapshots).message = MsgFoundOpen
    /\ memory = <<65>>
    /\ input_pointer = 1

Halted == {"halted_normally", "halted_error", "halted_limit"}

BracketPositions(c) == {i \in 0..(Len(instructions) - 1) : instructions[i + 1] = c}

Distance(a, b) == IF a >= b THEN a - b ELSE b - a

(* C12: with execution_limit = L > 0 a run records at most L + 1 snapshots *)
(* and, when it can take no further step, is in a halted state; a seek     *)
(* from any bracket moves instruction_pointer one character per step and   *)
(* ends within the length of the program.                                  *)
C12_Terminates ==
    execution_limit > 0 =>
      /\ Len(snapshots) <= execution_limit + 1
      /\ status \in Halted \cup {"running"}
      /\ status = "running" => ENABLED Next
      /\ \A i \in BracketPositions("[") :
           LET r == SeekForward(instructions, i, 0)
           IN /\ r.result.kind \in {"ok", "err"}
              /\ Distance(r.instruction_pointer, i) <= Len(instructions)
      /\ \A i \in BracketPositions("]") :
           LET r == SeekBackward(instructions, i, 0)
           IN /\ r.result.kind \in {"ok", "err"}
              /\ Distance(r.instruction_pointer, i) <= Len(instructions)

(* The loop-opens that match the loop-close at position j. *)
MatchingOpens(s, j) ==
    {i \in 0..(j - 1) : s[i + 1] = "[" /\ Balanced(s, i + 1, j - 1)}

(* C15: the forward seek from a loop-open at i stops on the smallest j > i *)
(* that holds a loop-close with balanced text between, and fails with the  *)
(* unmatched-open error exactly when there is none; the backward seek from *)
(* a loop-close at j stops on the greatest such i < j and fails with the   *)
(* unmatched-close error exactly when there is none; on a matched pair     *)
(* each seek undoes the other.                                             *)
C15_SeekMatches ==
    /\ \A i \in BracketPositions("[") :
         LET r == handle_open_bracket(instructions, i, <<0>>, 0)
             J == MatchingCloses(instructions, i)
         IN IF J = {}
            THEN r.result = Err(MsgNoClose)
            ELSE /\ r = [instruction_pointer |-> Min(J), result |-> Ok(MsgFoundClose)]
                 /\ handle_close_bracket(instructions, Min(J), <<1>>, 0)
                      = [instruction_pointer |-> i, result |-> Ok(MsgFoundOpen)]
    /\ \A j \in BracketPositions("]") :
         LET r == handle_close_bracket(instructions, j, <<1>>, 0)
             I == MatchingOpens(instructions, j)
         IN IF I = {}
            THEN r.result = Err(MsgNoOpen)
            ELSE /\ r = [instruction_pointer |-> Maximum(I), result |-> Ok(MsgFoundOpen)]
                 /\ handle_open_bracket(instructions, Maximum(I), <<0>>, 0)
                      = [instruction_pointer |-> j, result |-> Ok(MsgFoundClose)]

(* C19: whenever run is about to look a character up, and at every step of *)
(* a seek, the position is that of an existing character: no lookup fails. *)
C19_LookupInBounds ==
    /\ (status = "running" /\ LoopGuard) => Current # None
    /\ status # "panicked"
    /\ \A i \in BracketPositions("[") :
         SeekForward(instructions, i, 0).result.kind # "panic"
    /\ \A j \in BracketPositions("]") :
         SeekBackward(instructions, j, 0).result.kind # "panic"

(* The function run and the actions of Next describe the same run. *)
RunAgrees ==
    (status # "running" \/ ~ENABLED Next) =>
        run(instructions, input, execution_limit, memory_limit, step_cap)
          = [status |-> status, product |-> product]

BracketFree(s) == \A i \in DOMAIN s : s[i] \notin {"[", "]"}

IsInstr(c) == c \in Instr

(* The program text s without its non-instruction characters. *)
Strip(s) == SelectSeq(s, IsInstr)

EraseIp(snaps) == [i \in DOMAIN snaps |-> [snaps[i] EXCEPT !.instruction_pointer = 0]]

(* C17: dispatching a non-instruction character records no snapshot,       *)
(* advances instruction_pointer by exactly 1 and leaves the tape,          *)
(* memory_pointer, input_pointer, the output and the high-water mark       *)
(* unchanged; and the run of a bracket-free program ends with the          *)
(* snapshots, instruction_pointer values apart, of the run of the same     *)
(* program without its non-instruction characters.                         *)
C17_CommentsAreNoOps ==
    [][/\ (\E c \in Chars \ Instr : Dispatching(c)) =>
            /\ instruction_pointer' = instruction_pointer + 1
            /\ UNCHANGED <<snapshots, memory, memory_pointer, input_pointer,
                           output, memory_pointer_max, status>>
       /\ (status' # "running" /\ BracketFree(instructions)) =>
            LET q == run(Strip(instructions), input, execution_limit,
                         memory_limit, step_cap).product
            IN /\ product'.returned = q.returned
               /\ EraseIp(product'.snapshots) = EraseIp(q.snapshots)]_vars

(* C20: when the run of the same program and input without an execution   *)
(* limit halts after at most L executions, the run with execution_limit =  *)
(* L > 0 ends in the same state with the same product: same snapshots,     *)
(* same output, same execution count, no synthetic snapshot.               *)
C20_LimitOnlyCutsLongRuns ==
    (status # "running" /\ execution_limit > 0) =>
        LET u == run(instructions, input, 0, memory_limit, step_cap)
        IN (u.status \in Halted /\ u.product.executions <= execution_limit) =>
              /\ status = u.status
              /\ product = u.product

====
